---- MODULE Spec2Model ----
(***************************************************************************)
(* The multi-tenant connection layer of src/database.py: the registry      *)
(* (plants_registry, user_plant_access), the two connection caches         *)
(* plant_engines / plant_neo4j_drivers with their asyncio locks, the       *)
(* session generators get_plant_db / get_plant_neo4j_db and their          *)
(* consumers, the bulk operations init_db / check_db_health /              *)
(* close_connections, and the access check validate_plant_access with its  *)
(* middleware.  Every coroutine is a task whose steps are the segments     *)
(* between two awaits that can suspend (asyncio is cooperative: nothing    *)
(* interleaves inside a segment).                                          *)
(***************************************************************************)
EXTENDS Integers, Sequences, FiniteSets, TLC

\* ------------------------------------------------------------------ bounds
\* Handles one cache key may see constructed (engines or drivers, each).
MaxBuilds == 2

\* Queries one read_queries call is given.
MaxQueries == 2

\* ----------------------------------------------------- strings and int()
\* A string is a tuple of one-character strings.
Digits == <<"0", "1", "2", "3", "4", "5", "6", "7", "8", "9">>

IsDigit(c) == \E i \in 1..10 : Digits[i] = c

DigitVal(c) == (CHOOSE i \in 1..10 : Digits[i] = c) - 1

IsSpace(c) == c \in {" ", "\t"}

RECURSIVE lstrip(_)
lstrip(s) == IF s # <<>> /\ IsSpace(Head(s)) THEN lstrip(Tail(s)) ELSE s

RECURSIVE rstrip(_)
rstrip(s) ==
    IF s # <<>> /\ IsSpace(s[Len(s)]) THEN rstrip(SubSeq(s, 1, Len(s) - 1)) ELSE s

\* The digits of a literal, left to right; single underscores between digits
\* are skipped as int() skips them.  -1: not a literal.
RECURSIVE digits_value(_, _, _)
digits_value(s, acc, prev) ==
    IF s = <<>> THEN (IF prev = "digit" THEN acc ELSE -1)
    ELSE IF IsDigit(Head(s))
         THEN digits_value(Tail(s), 10 * acc + DigitVal(Head(s)), "digit")
    ELSE IF Head(s) = "_" /\ prev = "digit"
         THEN digits_value(Tail(s), acc, "under")
    ELSE -1

\* Python's int(str): surrounding whitespace stripped, an optional sign, then
\* decimal digits.  [ok |-> FALSE] stands for ValueError.
py_int(s) ==
    LET body == rstrip(lstrip(s))
        signed == body # <<>> /\ Head(body) \in {"+", "-"}
        mag == digits_value(IF signed THEN Tail(body) ELSE body, 0, "start")
    IN  IF mag < 0 THEN [ok |-> FALSE, val |-> 0]
        ELSE [ok |-> TRUE, val |-> IF signed /\ Head(body) = "-" THEN 0 - mag ELSE mag]

\* str(int) for the non-negative row ids of the registry.
RECURSIVE py_str(_)
py_str(n) == IF n < 10 THEN <<Digits[n + 1]>> ELSE py_str(n \div 10) \o <<Digits[(n % 10) + 1]>>

\* bool(x) of a header value: None and "" are falsy.
None == <<"<None>">>

Truthy(s) == s # None /\ s # <<>>

\* -------------------------------------------------------------- registry
\* The rows of plants_registry: id, database_key, neo4j_key, name (is_active
\* is the part of a row that changes: the variable plants_registry).
TenantIds == {1, 2, 3}

database_key(id) == <<"P", Digits[id + 1]>>

neo4j_key(id) == <<"P", Digits[id + 1]>>

\* The Plant-Id header values requests carry.
PlantIds == {<<"1">>, <<"0", "1">>, <<"2">>, <<"3">>, <<"9">>, <<"x">>}

\* The x-user-id header values requests carry.
UserIds == {<<"4">>, <<"5">>, <<"u">>, None}

\* The user_plant_access rows (user_id, plant_id) that exist.
GrantRows == {<<4, 1>>, <<5, 2>>}

\* ------------------------------------------------------------ environment
\* os.environ as the set of names that are set to a non-empty value.
RelSuffixes == {"_USER", "_PASSWORD", "_HOST", "_PORT", "_NAME"}

GraphSuffixes == {"_NEO4J_HOST", "_NEO4J_PORT", "_NEO4J_USER", "_NEO4J_PASSWORD",
                  "_NEO4J_DATABASE"}

EnvNames == {<<database_key(id), x>> : id \in TenantIds, x \in RelSuffixes \cup GraphSuffixes}

\* The deployment checked: plant 1 fully configured; plant 2 without its
\* relational database name; plant 3 without relational port and without
\* graph password; no plant names a graph database.
DeployedEnv ==
    EnvNames \ ({<<database_key(2), "_NAME">>, <<database_key(3), "_PORT">>,
                 <<database_key(3), "_NEO4J_PASSWORD">>}
                \cup {<<database_key(id), "_NEO4J_DATABASE">> : id \in TenantIds})

\* os.getenv(name) / os.getenv(name, default): "" stands for None.
getenv(env, key, suffix, default) == IF <<key, suffix>> \in env THEN "set" ELSE default

\* Settings.get_plant_database_url: [ok |-> FALSE] stands for ValueError.
get_plant_database_url(env, key) ==
    LET db_user == getenv(env, key, "_USER", "")
        db_password == getenv(env, key, "_PASSWORD", "")
        db_host == getenv(env, key, "_HOST", "")
        db_port == getenv(env, key, "_PORT", "5432")
        db_name == getenv(env, key, "_NAME", "")
    IN  IF \E v \in {db_user, db_password, db_host, db_port, db_name} : v = ""
        THEN [ok |-> FALSE, url |-> <<>>]
        ELSE [ok |-> TRUE, url |-> <<db_user, db_password, db_host, db_port, db_name>>]

\* Settings.get_plant_neo4j_config: [ok |-> FALSE] stands for ValueError.
get_plant_neo4j_config(env, key) ==
    LET neo4j_host == getenv(env, key, "_NEO4J_HOST", "")
        neo4j_port == getenv(env, key, "_NEO4J_PORT", "")
        neo4j_user == getenv(env, key, "_NEO4J_USER", "")
        neo4j_password == getenv(env, key, "_NEO4J_PASSWORD", "")
        neo4j_database == getenv(env, key, "_NEO4J_DATABASE", "neo4j")
    IN  IF \E v \in {neo4j_host, neo4j_port, neo4j_user, neo4j_password} : v = ""
        THEN [ok |-> FALSE, uri |-> <<>>, database |-> ""]
        ELSE [ok |-> TRUE, uri |-> <<neo4j_host, neo4j_port>>, database |-> neo4j_database]

\* ----------------------------------------------------------------- values
\* A connection handle: an (engine, session_maker) pair or a graph driver.
NoHandle == [kind |-> "none", key |-> <<>>, n |-> 0, tenant |-> 0]

\* What a call gives its caller: a value, an HTTPException, another exception.
NoResult == [kind |-> "none", code |-> 0, exc |-> "", h |-> NoHandle]

Ok(h) == [kind |-> "ok", code |-> 200, exc |-> "", h |-> h]

HTTPException(code) == [kind |-> "http", code |-> code, exc |-> "HTTPException", h |-> NoHandle]

Raise(name) == [kind |-> "exc", code |-> 0, exc |-> name, h |-> NoHandle]

Tasks == {1, 2}

NoTask == 0

HungOffset == 100

\* A task that runs nothing.  op: the coroutine; pc: the await it is suspended
\* at; plant: its plant_id argument; h, sess, rb, gen: the session scope it
\* holds (the handle, the session, whether session.rollback() ran, the state
\* of the async generator that yielded the session).
\* user, has_access: the caller id and the value of validate_plant_access;
\* todo, report: the plants a bulk operation has still to visit (or the keys
\* close_connections has still to close) and what it recorded per plant;
\* ctx: the dict validate_plant_access_middleware returned; listed: the rows
\* the bulk operation's SELECT of active plants returned; queries, value,
\* caught: the argument of read_queries / read_query, the value it returns
\* and whether its `except` caught an error.
NoContext == [plant_id |-> <<>>, auth_user_id |-> -1]

IdleTask == [op |-> "idle", pc |-> "idle", plant |-> <<>>, res |-> NoResult,
             h |-> NoHandle, sess |-> "none", rb |-> FALSE, gen |-> "none",
             user |-> <<>>, has_access |-> FALSE, todo |-> <<>>, report |-> {},
             ctx |-> NoContext, listed |-> <<>>, queries |-> <<>>, value |-> <<>>,
             caught |-> FALSE]

EmptyCache == <<>>

\* cache[p] = h of a Python dict: p is added, or its value replaced.
cache_set(cache, p, h) == [k \in DOMAIN cache \cup {p} |-> IF k = p THEN h ELSE cache[k]]

VARIABLES
    plants_registry,      \* plants_registry.is_active, per row id
    user_plant_access,    \* user_plant_access.is_active, per (user, plant) row
    environ,              \* os.environ
    down,                 \* the stores that do not answer now
    plant_engines,        \* database.plant_engines: key -> (engine, session_maker)
    plant_engines_lock,   \* the task holding database.plant_engines_lock
    plant_neo4j_drivers,  \* database.plant_neo4j_drivers: key -> driver
    plant_neo4j_lock,     \* the task holding database.plant_neo4j_lock
    task,                 \* per task: the coroutine it runs and where it is
    constructed,          \* every engine pair and driver constructed so far
    probed,               \* the drivers whose 'RETURN 1' probe succeeded
    returned,             \* the handles get_plant_engine / get_plant_neo4j_driver returned
    closed,               \* the engines disposed and the drivers closed
    closes                \* whether close_connections has been called

vars == <<plants_registry, user_plant_access, environ, down, plant_engines,
          plant_engines_lock, plant_neo4j_drivers, plant_neo4j_lock, task,
          constructed, probed, returned, closed, closes>>

registry_vars == <<plants_registry, user_plant_access, environ, down>>

cache_vars == <<plant_engines, plant_engines_lock, plant_neo4j_drivers, plant_neo4j_lock>>

history_vars == <<constructed, probed, returned, closed, closes>>

Registry == <<"registry", 0>>

RelStore(id) == <<"rel", id>>

GraphStore(id) == <<"graph", id>>

Init ==
    /\ plants_registry = [id \in TenantIds |-> TRUE]
    /\ user_plant_access = [g \in GrantRows |-> TRUE]
    /\ environ = DeployedEnv
    /\ down = {}
    /\ plant_engines = EmptyCache
    /\ plant_engines_lock = NoTask
    /\ plant_neo4j_drivers = EmptyCache
    /\ plant_neo4j_lock = NoTask
    /\ task = [t \in Tasks |-> IdleTask]
    /\ constructed = {}
    /\ probed = {}
    /\ returned = {}
    /\ closed = {}
    /\ closes = FALSE

\* ------------------------------------------------ the registry's queries
\* SELECT ... FROM plants_registry WHERE id = :plant_id AND is_active = true
\* then fetchone(): the row id, or 0 for no row.
select_active_plant(id) == IF id \in TenantIds /\ plants_registry[id] THEN id ELSE 0

\* --------------------------------------------------------- session scopes
\* What get_plant_db does when it is resumed at its yield: by __anext__
\* ("next"), by athrow of an Exception ("throw") or by aclose, which throws
\* GeneratorExit, a BaseException ("close").  rollback / close: the calls
\* made on the session; out: what the resumption raises.
get_plant_db_resume(how, e) ==
    CASE how = "next"  -> [rollback |-> FALSE, close |-> TRUE, out |-> Raise("StopAsyncIteration")]
      [] how = "throw" -> [rollback |-> TRUE, close |-> TRUE,
                           out |-> IF e.kind = "http" THEN e ELSE HTTPException(500)]
      [] how = "close" -> [rollback |-> FALSE, close |-> TRUE, out |-> Raise("GeneratorExit")]

\* The same for get_plant_neo4j_db: no rollback, the session closed by
\* `async with driver.session()`.
get_plant_neo4j_db_resume(how, e) ==
    CASE how = "next"  -> [rollback |-> FALSE, close |-> TRUE, out |-> Raise("StopAsyncIteration")]
      [] how = "throw" -> [rollback |-> FALSE, close |-> TRUE,
                           out |-> IF e.kind = "http" THEN e ELSE HTTPException(500)]
      [] how = "close" -> [rollback |-> FALSE, close |-> TRUE, out |-> Raise("GeneratorExit")]

\* What the first __anext__ of get_plant_db / get_plant_neo4j_db raises when
\* obtaining the handle raised r: `except HTTPException: raise`, and any
\* other exception becomes HTTPException(500).
scope_error(r) == IF r.kind = "http" THEN r ELSE HTTPException(500)

\* How a consumer resumes the generator it is iterating when its loop body
\* ends: `async for` calls __anext__ after a normal pass, and on an exception
\* leaves the loop without touching the generator (it stays suspended at its
\* yield until the event loop's asyncgen finalizer closes it).  The wrapper
\* generators (get_plant_db_with_context, KnowledgeGraph.get_session, ...)
\* are themselves consumers of this form.
async_for_resume(raised) == IF raised THEN "none" ELSE "next"

ScopeOps == {"rel", "graph"}

\* A bulk operation records status for (kind, the plant it is visiting).
Note(tk, kind, status) == [tk EXCEPT !.report = @ \cup {<<kind, Head(tk.todo), status>>}]

\* A bulk operation goes on with the plant after the one it is visiting, or
\* returns after the last one.
NextPlant(tk) ==
    IF Len(tk.todo) <= 1
    THEN [tk EXCEPT !.pc = "done", !.res = Ok(NoHandle), !.todo = <<>>, !.plant = <<>>,
                    !.h = NoHandle]
    ELSE [tk EXCEPT !.pc = "eng_lock", !.todo = Tail(@), !.plant = py_str(tk.todo[2]),
                    !.h = NoHandle]

init_db_after_get_aborting(tk, kind, r) ==
    IF r.kind = "ok"
    THEN [tk EXCEPT !.pc = IF kind = "engine" THEN "init_create" ELSE "init_probe", !.h = r.h]
    ELSE [tk EXCEPT !.pc = "done", !.res = r]

\* init_db after init_plant_db's get_plant_engine / init_plant_neo4j's
\* get_plant_neo4j_driver gave r: init_plant_db re-raises and the loop's
\* except goes on with the next plant; init_plant_neo4j swallows.
init_db_after_get(tk, kind, r) ==
    IF kind = "engine"
    THEN IF r.kind = "ok" THEN [tk EXCEPT !.pc = "init_create", !.h = r.h]
         ELSE NextPlant(Note(tk, "rel", "FAILED"))
    ELSE IF r.kind = "ok" THEN [tk EXCEPT !.pc = "init_probe", !.h = r.h]
         ELSE NextPlant(Note(tk, "graph", "FAILED"))

\* check_db_health after its get_plant_engine / get_plant_neo4j_driver gave
\* r: each kind has its own try / except.
check_db_health_after_get(tk, kind, r) ==
    IF kind = "engine"
    THEN IF r.kind = "ok" THEN [tk EXCEPT !.pc = "health_rel_probe", !.h = r.h]
         ELSE [Note(tk, "rel", "false") EXCEPT !.pc = "drv_lock"]
    ELSE IF r.kind = "ok" THEN [tk EXCEPT !.pc = "health_graph_probe", !.h = r.h]
         ELSE NextPlant(Note(tk, "graph", "false"))

\* The task after get_plant_engine / get_plant_neo4j_driver gave it r.
AfterGet(tk, kind, r) ==
    CASE tk.op \in {"get_engine", "get_driver"} ->
            [tk EXCEPT !.pc = "done", !.res = r]
      [] tk.op \in ScopeOps ->
            IF r.kind = "ok"
            THEN [tk EXCEPT !.pc = "work", !.h = r.h, !.sess = "open", !.gen = "suspended"]
            ELSE [tk EXCEPT !.pc = "done", !.res = scope_error(r), !.gen = "finished"]
      [] tk.op = "route_chat" ->
            IF r.kind = "ok"
            THEN [tk EXCEPT !.pc = "done", !.res = r, !.h = r.h, !.sess = "open"]
            ELSE [tk EXCEPT !.pc = "done", !.res = scope_error(r)]
      [] tk.op = "route_query" ->
            IF r.kind = "ok"
            THEN [tk EXCEPT !.pc = "route_access", !.h = r.h, !.sess = "open"]
            ELSE [tk EXCEPT !.pc = "done", !.res = scope_error(r)]
      [] tk.op = "init_db" -> init_db_after_get(tk, kind, r)
      [] tk.op = "health" -> check_db_health_after_get(tk, kind, r)

Returned(r) == IF r.kind = "ok" THEN {r.h} ELSE {}

\* ------------------------------------------------------ get_plant_engine
EngineNeverCached(p) == FALSE

\* `if plant_id in plant_engines`
EngineCached(p) == p \in DOMAIN plant_engines

BuiltCount(kind, p) == Cardinality({h \in constructed : h.kind = kind /\ h.key = p})

NewHandle(kind, p, id) == [kind |-> kind, key |-> p, n |-> BuiltCount(kind, p) + 1, tenant |-> id]

\* `async with plant_engines_lock`, the cache check, and int(plant_id): the
\* segment up to the await of the registry query.
EngAcquire(t) ==
    /\ task[t].pc = "eng_lock"
    /\ plant_engines_lock = NoTask
    /\ LET p == task[t].plant IN
        IF EngineCached(p)
        THEN /\ task' = [task EXCEPT ![t] = AfterGet(@, "engine", Ok(plant_engines[p]))]
             /\ returned' = returned \cup {plant_engines[p]}
             /\ UNCHANGED plant_engines_lock
        ELSE IF ~py_int(p).ok
        THEN /\ task' = [task EXCEPT ![t] = AfterGet(@, "engine", Raise("ValueError"))]
             /\ UNCHANGED <<returned, plant_engines_lock>>
        ELSE /\ task' = [task EXCEPT ![t].pc = "eng_query"]
             /\ plant_engines_lock' = t
             /\ UNCHANGED returned
    /\ UNCHANGED <<registry_vars, plant_engines, plant_neo4j_drivers, plant_neo4j_lock,
                   constructed, probed, closed, closes>>

engine_lookup_needs_graph(p) ==
    LET id == select_active_plant(py_int(p).val) IN
    IF Registry \in down THEN Raise("DBAPIError")
    ELSE IF id = 0 THEN HTTPException(404)
    ELSE IF GraphStore(id) \in down THEN HTTPException(503)
    ELSE IF ~get_plant_database_url(environ, database_key(id)).ok THEN HTTPException(500)
    ELSE Ok(NewHandle("engine", p, id))

\* What the registry row and the environment make of the call: the result
\* it ends with, "build" standing for the construction of the engine.
engine_lookup(p) ==
    LET id == select_active_plant(py_int(p).val) IN
    IF Registry \in down THEN Raise("DBAPIError")
    ELSE IF id = 0 THEN HTTPException(404)
    ELSE IF ~get_plant_database_url(environ, database_key(id)).ok THEN HTTPException(500)
    ELSE Ok(NewHandle("engine", p, id))

\* The registry answered: 404, 500, or the engine is built and cached; the
\* lock is released on the way out.
EngQuery(t) ==
    /\ task[t].pc = "eng_query"
    /\ plant_engines_lock = t
    /\ LET p == task[t].plant
           r == engine_lookup(p)
       IN  /\ task' = [task EXCEPT ![t] = AfterGet(@, "engine", r)]
           /\ plant_engines' = IF r.kind = "ok" THEN cache_set(plant_engines, p, r.h)
                                               ELSE plant_engines
           /\ constructed' = constructed \cup Returned(r)
           /\ returned' = returned \cup Returned(r)
    /\ plant_engines_lock' = NoTask
    /\ UNCHANGED <<registry_vars, plant_neo4j_drivers, plant_neo4j_lock, probed, closed, closes>>

\* ------------------------------------------------ get_plant_neo4j_driver
\* `if plant_id in plant_neo4j_drivers`
DriverNeverCached(p) == FALSE

\* `if plant_id in plant_neo4j_drivers`
DriverCached(p) == p \in DOMAIN plant_neo4j_drivers

DrvAcquire(t) ==
    /\ task[t].pc = "drv_lock"
    /\ plant_neo4j_lock = NoTask
    /\ LET p == task[t].plant IN
        IF DriverCached(p)
        THEN /\ task' = [task EXCEPT ![t] = AfterGet(@, "driver", Ok(plant_neo4j_drivers[p]))]
             /\ returned' = returned \cup {plant_neo4j_drivers[p]}
             /\ UNCHANGED plant_neo4j_lock
        ELSE IF ~py_int(p).ok
        THEN /\ task' = [task EXCEPT ![t] = AfterGet(@, "driver", Raise("ValueError"))]
             /\ UNCHANGED <<returned, plant_neo4j_lock>>
        ELSE /\ task' = [task EXCEPT ![t].pc = "drv_query"]
             /\ plant_neo4j_lock' = t
             /\ UNCHANGED returned
    /\ UNCHANGED <<registry_vars, plant_engines, plant_engines_lock, plant_neo4j_drivers,
                   constructed, probed, closed, closes>>

\* The result of the registry lookup and of the configuration; Ok(h): the
\* driver h is constructed and its probe is awaited.
driver_lookup(p) ==
    LET id == select_active_plant(py_int(p).val) IN
    IF Registry \in down THEN Raise("DBAPIError")
    ELSE IF id = 0 THEN HTTPException(404)
    ELSE IF ~get_plant_neo4j_config(environ, neo4j_key(id)).ok THEN HTTPException(500)
    ELSE Ok(NewHandle("driver", p, id))

DrvQuery(t) ==
    /\ task[t].pc = "drv_query"
    /\ plant_neo4j_lock = t
    /\ LET r == driver_lookup(task[t].plant) IN
        IF r.kind = "ok"
        THEN /\ task' = [task EXCEPT ![t].pc = "drv_probe", ![t].h = r.h]
             /\ constructed' = constructed \cup {r.h}
             /\ UNCHANGED plant_neo4j_lock
        ELSE /\ task' = [task EXCEPT ![t] = AfterGet(@, "driver", r)]
             /\ plant_neo4j_lock' = NoTask
             /\ UNCHANGED constructed
    /\ UNCHANGED <<registry_vars, plant_engines, plant_engines_lock, plant_neo4j_drivers,
                   probed, returned, closed, closes>>

driver_store_unprobed(cache, p, h, probe_ok) == cache_set(cache, p, h)

\* The cache after the probe of driver h for key p ended.
driver_store(cache, p, h, probe_ok) == IF probe_ok THEN cache_set(cache, p, h) ELSE cache

\* `RETURN 1` came back, or session.run / result.single raised: the driver
\* is cached and returned, or HTTPException(503) is raised.
DrvProbe(t) ==
    /\ task[t].pc = "drv_probe"
    /\ plant_neo4j_lock = t
    /\ LET p == task[t].plant
           h == task[t].h
           probe_ok == GraphStore(h.tenant) \notin down
           r == IF probe_ok THEN Ok(h) ELSE HTTPException(503)
       IN  /\ plant_neo4j_drivers' = driver_store(plant_neo4j_drivers, p, h, probe_ok)
           /\ probed' = IF probe_ok THEN probed \cup {h} ELSE probed
           /\ returned' = returned \cup Returned(r)
           /\ task' = [task EXCEPT ![t] = AfterGet([@ EXCEPT !.h = NoHandle], "driver", r)]
    /\ plant_neo4j_lock' = NoTask
    /\ UNCHANGED <<registry_vars, plant_engines, plant_engines_lock, constructed, closed, closes>>

\* ----------------------------------------------------------------- init_db
\* SELECT id, name FROM plants_registry WHERE is_active = true, fetchall().
active_plants == SelectSeq(<<1, 2, 3>>, LAMBDA id : plants_registry[id])

\* A bulk operation has its list of plants and enters its loop.
EnterLoop(tk, plants) ==
    IF plants = <<>>
    THEN [tk EXCEPT !.pc = "done", !.res = Ok(NoHandle)]
    ELSE [tk EXCEPT !.pc = "eng_lock", !.todo = plants, !.listed = plants,
                    !.plant = py_str(Head(plants))]

\* init_central_db: create_all on the registry engine ended.
InitCentral(t) ==
    /\ task[t].pc = "init_central"
    /\ task' = [task EXCEPT ![t] =
                   IF Registry \in down
                   THEN [@ EXCEPT !.pc = "done", !.res = Raise("DBAPIError")]
                   ELSE [@ EXCEPT !.pc = "init_list"]]
    /\ UNCHANGED <<registry_vars, cache_vars, history_vars>>

\* The list of active plants arrived (or the query raised, and init_db
\* raises).
InitList(t) ==
    /\ task[t].pc = "init_list"
    /\ task' = [task EXCEPT ![t] =
                   IF Registry \in down
                   THEN [@ EXCEPT !.pc = "done", !.res = Raise("DBAPIError")]
                   ELSE EnterLoop(@, active_plants)]
    /\ UNCHANGED <<registry_vars, cache_vars, history_vars>>

\* init_plant_db: engine.begin() and create_all ended; on success
\* init_plant_neo4j follows, on failure the next plant.
InitCreate(t) ==
    /\ task[t].pc = "init_create"
    /\ task' = [task EXCEPT ![t] =
                   IF RelStore(Head(@.todo)) \in down
                   THEN NextPlant(Note(@, "rel", "FAILED"))
                   ELSE [Note(@, "rel", "READY") EXCEPT !.pc = "drv_lock", !.h = NoHandle]]
    /\ UNCHANGED <<registry_vars, cache_vars, history_vars>>

\* init_plant_neo4j: the 'RETURN 1' on the driver it was given ended.
InitProbe(t) ==
    /\ task[t].pc = "init_probe"
    /\ task' = [task EXCEPT ![t] =
                   NextPlant(Note(@, "graph", IF GraphStore(Head(@.todo)) \in down
                                              THEN "FAILED" ELSE "READY"))]
    /\ UNCHANGED <<registry_vars, cache_vars, history_vars>>

\* --------------------------------------------------------- check_db_health
\* SELECT 1 on the registry ended: health_status["central_db"].
HealthCentral(t) ==
    /\ task[t].pc = "health_central"
    /\ task' = [task EXCEPT ![t].pc = "health_list",
                             ![t].report = {<<"central", 0, IF Registry \in down THEN "false"
                                                                                ELSE "true">>}]
    /\ UNCHANGED <<registry_vars, cache_vars, history_vars>>

\* The list of active plants arrived, or the query raised and the outer
\* except returns the report as it is.
HealthList(t) ==
    /\ task[t].pc = "health_list"
    /\ task' = [task EXCEPT ![t] =
                   IF Registry \in down
                   THEN [@ EXCEPT !.pc = "done", !.res = Ok(NoHandle)]
                   ELSE EnterLoop(@, active_plants)]
    /\ UNCHANGED <<registry_vars, cache_vars, history_vars>>

\* engine.begin() and SELECT 1 on the plant's engine ended.
HealthRelProbe(t) ==
    /\ task[t].pc = "health_rel_probe"
    /\ task' = [task EXCEPT ![t] =
                   [Note(@, "rel", IF RelStore(Head(@.todo)) \in down THEN "false" ELSE "true")
                      EXCEPT !.pc = "drv_lock", !.h = NoHandle]]
    /\ UNCHANGED <<registry_vars, cache_vars, history_vars>>

\* 'RETURN 1' on the plant's driver ended.
HealthGraphProbe(t) ==
    /\ task[t].pc = "health_graph_probe"
    /\ task' = [task EXCEPT ![t] =
                   NextPlant(Note(@, "graph", IF GraphStore(Head(@.todo)) \in down
                                              THEN "false" ELSE "true"))]
    /\ UNCHANGED <<registry_vars, cache_vars, history_vars>>

\* ------------------------------------------------------- close_connections
KeysFirstOnly(S) == IF S = {} THEN <<>> ELSE <<CHOOSE k \in S : TRUE>>

dict_keep(cache) == cache

\* plant_neo4j_drivers.clear() / plant_engines.clear().
dict_clear(cache) == EmptyCache

\* The keys of a cache in the order the loop visits them.
RECURSIVE KeysOf(_)
KeysOf(S) == IF S = {} THEN <<>> ELSE LET k == CHOOSE k \in S : TRUE IN <<k>> \o KeysOf(S \ {k})

\* `async with plant_neo4j_lock`: the loop over the cached drivers starts;
\* with no driver cached the cache is cleared, the lock released and
\* central_engine.dispose() awaited.
CloseAcquireDrivers(t) ==
    /\ task[t].pc = "close_drv_lock"
    /\ plant_neo4j_lock = NoTask
    /\ IF DOMAIN plant_neo4j_drivers = {}
       THEN /\ task' = [task EXCEPT ![t].pc = "close_central"]
            /\ UNCHANGED plant_neo4j_lock
       ELSE /\ task' = [task EXCEPT ![t].pc = "close_drivers",
                                    ![t].todo = KeysOf(DOMAIN plant_neo4j_drivers)]
            /\ plant_neo4j_lock' = t
    /\ UNCHANGED <<registry_vars, plant_engines, plant_engines_lock, plant_neo4j_drivers,
                   history_vars>>

CloseDriverKeepsLock(t, ok) ==
    /\ task[t].pc = "close_drivers"
    /\ plant_neo4j_lock = t
    /\ closed' = IF ok THEN closed \cup {plant_neo4j_drivers[Head(task[t].todo)]} ELSE closed
    /\ IF Len(task[t].todo) = 1
       THEN /\ plant_neo4j_drivers' = dict_clear(plant_neo4j_drivers)
            /\ task' = [task EXCEPT ![t].pc = "close_central", ![t].todo = <<>>]
       ELSE /\ task' = [task EXCEPT ![t].todo = Tail(@)]
            /\ UNCHANGED plant_neo4j_drivers
    /\ UNCHANGED <<registry_vars, plant_engines, plant_engines_lock, plant_neo4j_lock,
                   constructed, probed, returned, closes>>

\* One `await driver.close()` ended, having closed the driver or raised
\* (logged); after the last one the cache is cleared and the lock released.
CloseDriver(t, ok) ==
    /\ task[t].pc = "close_drivers"
    /\ plant_neo4j_lock = t
    /\ closed' = IF ok THEN closed \cup {plant_neo4j_drivers[Head(task[t].todo)]} ELSE closed
    /\ IF Len(task[t].todo) = 1
       THEN /\ plant_neo4j_drivers' = dict_clear(plant_neo4j_drivers)
            /\ plant_neo4j_lock' = NoTask
            /\ task' = [task EXCEPT ![t].pc = "close_central", ![t].todo = <<>>]
       ELSE /\ task' = [task EXCEPT ![t].todo = Tail(@)]
            /\ UNCHANGED <<plant_neo4j_drivers, plant_neo4j_lock>>
    /\ UNCHANGED <<registry_vars, plant_engines, plant_engines_lock, constructed, probed,
                   returned, closes>>

\* central_engine.dispose() ended (a failure is logged), and
\* `async with plant_engines_lock` is next.
CloseCentral(t) ==
    /\ task[t].pc = "close_central"
    /\ task' = [task EXCEPT ![t].pc = "close_eng_lock"]
    /\ UNCHANGED <<registry_vars, cache_vars, history_vars>>

\* `async with plant_engines_lock`: the loop over the cached engines starts;
\* with no engine cached close_connections returns.
CloseAcquireEngines(t) ==
    /\ task[t].pc = "close_eng_lock"
    /\ plant_engines_lock = NoTask
    /\ IF DOMAIN plant_engines = {}
       THEN /\ task' = [task EXCEPT ![t].pc = "done", ![t].res = Ok(NoHandle)]
            /\ UNCHANGED plant_engines_lock
       ELSE /\ task' = [task EXCEPT ![t].pc = "close_engines",
                                    ![t].todo = KeysOf(DOMAIN plant_engines)]
            /\ plant_engines_lock' = t
    /\ UNCHANGED <<registry_vars, plant_engines, plant_neo4j_drivers, plant_neo4j_lock,
                   history_vars>>

\* One `await engine.dispose()` ended; after the last one the cache is
\* cleared, the lock released and close_connections returns.
CloseEngine(t, ok) ==
    /\ task[t].pc = "close_engines"
    /\ plant_engines_lock = t
    /\ closed' = IF ok THEN closed \cup {plant_engines[Head(task[t].todo)]} ELSE closed
    /\ IF Len(task[t].todo) = 1
       THEN /\ plant_engines' = dict_clear(plant_engines)
            /\ plant_engines_lock' = NoTask
            /\ task' = [task EXCEPT ![t].pc = "done", ![t].res = Ok(NoHandle), ![t].todo = <<>>]
       ELSE /\ task' = [task EXCEPT ![t].todo = Tail(@)]
            /\ UNCHANGED <<plant_engines, plant_engines_lock>>
    /\ UNCHANGED <<registry_vars, plant_neo4j_drivers, plant_neo4j_lock, constructed, probed,
                   returned, closes>>

\* ------------------------------------------- the consumers of a session
\* The generator's own function for the task's scope.
generator_resume(op, how, e) ==
    IF op = "rel" THEN get_plant_db_resume(how, e) ELSE get_plant_neo4j_db_resume(how, e)

\* The task after its generator was resumed in the way `how`; its caller
\* gets `out`.
Resumed(tk, how, out) ==
    IF how = "none"
    THEN [tk EXCEPT !.pc = "done", !.res = out, !.gen = "abandoned"]
    ELSE LET g == generator_resume(tk.op, how, out) IN
         [tk EXCEPT !.pc = "done",
                    !.res = IF how = "next" THEN out ELSE g.out,
                    !.rb = g.rollback,
                    !.sess = IF g.close THEN "closed" ELSE @,
                    !.gen = "finished"]

\* The unit of work ends normally: the loop asks the generator for the next
\* session, the generator runs its cleanup and ends, the loop ends.
WorkDone(t) ==
    /\ task[t].pc = "work"
    /\ task' = [task EXCEPT ![t] = Resumed(@, async_for_resume(FALSE), Ok(task[t].h))]
    /\ UNCHANGED <<registry_vars, cache_vars, history_vars>>

\* What a unit of work raises: an error of its own, or an HTTPException of
\* the route.
WorkErrors == {Raise("WorkError"), HTTPException(400)}

\* The unit of work raises e.
WorkRaise(t, e) ==
    /\ task[t].pc = "work"
    /\ task' = [task EXCEPT ![t] = Resumed(@, async_for_resume(TRUE), e)]
    /\ UNCHANGED <<registry_vars, cache_vars, history_vars>>

\* The event loop's asyncgen finalizer: an abandoned generator is closed
\* (aclose) once it is garbage, some time after its consumer left it.
Finalize(t) ==
    /\ task[t].gen = "abandoned"
    /\ LET g == generator_resume(task[t].op, "close", NoResult) IN
        task' = [task EXCEPT ![t].gen = "finished",
                             ![t].rb = g.rollback,
                             ![t].sess = IF g.close THEN "closed" ELSE @]
    /\ UNCHANGED <<registry_vars, cache_vars, history_vars>>

\* ---------------------------------------------------- validate_plant_access
has_access_query_trusting_cache(user_id, plant_id) ==
    /\ <<user_id, plant_id>> \in GrantRows
    /\ user_plant_access[<<user_id, plant_id>>]
    /\ plant_id \in TenantIds
    /\ (plants_registry[plant_id] \/ py_str(plant_id) \in DOMAIN plant_engines)

\* SELECT EXISTS(... user_plant_access JOIN plants_registry ... both active).
has_access_query(user_id, plant_id) ==
    /\ <<user_id, plant_id>> \in GrantRows
    /\ user_plant_access[<<user_id, plant_id>>]
    /\ plant_id \in TenantIds
    /\ plants_registry[plant_id]

middleware_result_open(has_access) == Ok(NoHandle)

\* What validate_plant_access_middleware does with the value of
\* validate_plant_access: the context, or HTTPException(403).
middleware_result(has_access) == IF has_access THEN Ok(NoHandle) ELSE HTTPException(403)

middleware_context_fixed(p, u) == [plant_id |-> <<"1">>, auth_user_id |-> py_int(u).val]

\* The dict the middleware returns: the header's plant_id as it came and
\* int(auth_user_id).
middleware_context(p, u) == [plant_id |-> p, auth_user_id |-> py_int(u).val]

\* The caller of validate_plant_access has its value: the middleware returns
\* the context or raises 403, QueryService.execute_query goes on to its
\* query or raises PermissionError, a direct caller has the value.
AfterAccess(tk, b) ==
    CASE tk.op = "middleware" ->
            [tk EXCEPT !.pc = "done", !.has_access = b, !.res = middleware_result(b),
                       !.ctx = IF middleware_result(b).kind = "ok"
                               THEN middleware_context(tk.plant, tk.user) ELSE NoContext]
      [] tk.op = "execute_query" ->
            IF b THEN [tk EXCEPT !.pc = "exec_run", !.has_access = b]
            ELSE [tk EXCEPT !.pc = "done", !.has_access = b, !.res = Raise("PermissionError")]
      [] tk.op = "route_chat" ->
            IF middleware_result(b).kind = "ok"
            THEN [tk EXCEPT !.pc = "eng_lock", !.has_access = b,
                            !.ctx = middleware_context(tk.plant, tk.user)]
            ELSE [tk EXCEPT !.pc = "done", !.has_access = b, !.res = middleware_result(b)]
      [] tk.op = "route_query" ->
            [tk EXCEPT !.pc = "done", !.has_access = b,
                       !.res = IF middleware_result(b).kind = "ok" THEN Ok(tk.h)
                               ELSE middleware_result(b),
                       !.ctx = IF middleware_result(b).kind = "ok"
                               THEN middleware_context(tk.plant, tk.user) ELSE NoContext]
      [] OTHER -> [tk EXCEPT !.pc = "done", !.has_access = b, !.res = Ok(NoHandle)]

\* validate_plant_access(user_id, plant_id) up to the await of its query:
\* int(plant_id) is inside the try, a ValueError gives False.
ValidateStart(tk) ==
    IF ~py_int(tk.plant).ok THEN AfterAccess(tk, FALSE) ELSE [tk EXCEPT !.pc = "access_query"]

\* validate_plant_access_middleware(plant_id, auth_user_id) up to that await:
\* 400 without Plant-Id, 401 without x-user-id, and the ValueError of
\* int(auth_user_id) becomes 500.
StartMiddleware(t, p, u) ==
    /\ task[t].pc = "idle"
    /\ LET tk == [IdleTask EXCEPT !.op = "middleware", !.plant = p, !.user = u] IN
        task' = [task EXCEPT ![t] =
                   IF ~Truthy(p) THEN [tk EXCEPT !.pc = "done", !.res = HTTPException(400)]
                   ELSE IF ~Truthy(u) THEN [tk EXCEPT !.pc = "done", !.res = HTTPException(401)]
                   ELSE IF ~py_int(u).ok THEN [tk EXCEPT !.pc = "done", !.res = HTTPException(500)]
                   ELSE ValidateStart(tk)]
    /\ UNCHANGED <<registry_vars, cache_vars, history_vars>>

\* The routes: create_chat_session and the other routes of endpoints.py
\* declare the access middleware before the session dependency,
\* query_endpoint's execute_query declares the session dependency first;
\* the dependencies of a route are resolved in the order of declaration.
Routes == {"route_chat", "route_query"}

\* Depends(validate_plant_access_middleware) of a route, up to the await of
\* the access query.
middleware_entry(tk) ==
    IF ~Truthy(tk.plant) THEN [tk EXCEPT !.pc = "done", !.res = HTTPException(400)]
    ELSE IF ~Truthy(tk.user) THEN [tk EXCEPT !.pc = "done", !.res = HTTPException(401)]
    ELSE IF ~py_int(tk.user).ok THEN [tk EXCEPT !.pc = "done", !.res = HTTPException(500)]
    ELSE ValidateStart(tk)

\* A request with the headers Plant-Id: p and x-user-id: u arrives at a
\* route and its first dependency starts.
StartRoute(t, route, p, u) ==
    /\ task[t].pc = "idle"
    /\ BuiltCount("engine", p) < MaxBuilds
    /\ LET tk == [IdleTask EXCEPT !.op = route, !.plant = p, !.user = u] IN
        task' = [task EXCEPT ![t] =
                   IF route = "route_chat" THEN middleware_entry(tk)
                   ELSE IF ~Truthy(p) THEN [tk EXCEPT !.pc = "done", !.res = HTTPException(400)]
                   ELSE [tk EXCEPT !.pc = "eng_lock"]]
    /\ UNCHANGED <<registry_vars, cache_vars, history_vars>>

\* execute_query's session dependency has yielded its session and the
\* access middleware, declared after it, starts.
RouteMiddleware(t) ==
    /\ task[t].pc = "route_access"
    /\ task' = [task EXCEPT ![t] = middleware_entry(@)]
    /\ UNCHANGED <<registry_vars, cache_vars, history_vars>>

\* A direct call validate_plant_access(int(u), p), as QueryService makes it.
StartValidate(t, p, u) ==
    /\ task[t].pc = "idle"
    /\ py_int(u).ok
    /\ task' = [task EXCEPT ![t] =
                   ValidateStart([IdleTask EXCEPT !.op = "validate", !.plant = p, !.user = u])]
    /\ UNCHANGED <<registry_vars, cache_vars, history_vars>>

\* QueryService.execute_query(db, query, user_id=u, plant_id=p): access is
\* validated `if user_id and plant_id`, else the query runs at once.
StartExecuteQuery(t, p, u) ==
    /\ task[t].pc = "idle"
    /\ u = None \/ py_int(u).ok
    /\ LET tk == [IdleTask EXCEPT !.op = "execute_query", !.plant = p, !.user = u] IN
        task' = [task EXCEPT ![t] =
                   IF u # None /\ py_int(u).val # 0 /\ Truthy(p)
                   THEN ValidateStart(tk)
                   ELSE [tk EXCEPT !.pc = "exec_run"]]
    /\ UNCHANGED <<registry_vars, cache_vars, history_vars>>

\* db.execute(text(query)) of execute_query ended: rows, or it raised.
ExecRun(t, ok) ==
    /\ task[t].pc = "exec_run"
    /\ task' = [task EXCEPT ![t].pc = "done",
                             ![t].res = IF ok THEN Ok(NoHandle) ELSE Raise("DBAPIError")]
    /\ UNCHANGED <<registry_vars, cache_vars, history_vars>>

\* The registry answered the access query, or raised: `except Exception`
\* returns False.
AccessQuery(t) ==
    /\ task[t].pc = "access_query"
    /\ task' = [task EXCEPT ![t] =
                   AfterAccess(@, /\ Registry \notin down
                                  /\ has_access_query(py_int(@.user).val, py_int(@.plant).val))]
    /\ UNCHANGED <<registry_vars, cache_vars, history_vars>>

\* ------------------------------------------- KnowledgeGraph.read_queries
\* The Cypher queries a caller sends, by number.
QueryIds == {1, 2}

\* What `await query_result.data()` can give for query q: no match, or one
\* row (a row is named by its query).
Answers(q) == {<<>>, <<q>>}

QueryLists == UNION {[1..n -> QueryIds] : n \in 0..MaxQueries}

read_queries_return_partial(ok, res) == res

\* The value read_queries returns: res of execute_read, or [[]] after one
\* of its excepts.
read_queries_return(ok, res) == IF ok THEN res ELSE <<<<>>>>

\* read_query: `results[0] if results else []`.
read_query_return(results) == IF results # <<>> THEN results[1] ELSE <<>>

\* The value the call hands its caller.
ReadValue(op, ok, res) ==
    IF op = "read_query" THEN read_query_return(read_queries_return(ok, res))
    ELSE read_queries_return(ok, res)

\* kg.read_queries(queries, session) or kg.read_query(queries[0], session)
\* is called: session.execute_read(read_tx_queries, queries) starts.
StartRead(t, op, queries) ==
    /\ task[t].pc = "idle"
    /\ op = "read_query" => Len(queries) = 1
    /\ task' = [task EXCEPT ![t] = [IdleTask EXCEPT !.op = op, !.pc = "read_tx",
                                                    !.queries = queries, !.todo = queries]]
    /\ UNCHANGED <<registry_vars, cache_vars, history_vars>>

\* tx.run(query) and query_result.data() of the next query gave rows.
ReadRun(t, rows) ==
    /\ task[t].pc = "read_tx"
    /\ task[t].todo # <<>>
    /\ rows \in Answers(Head(task[t].todo))
    /\ task' = [task EXCEPT ![t].todo = Tail(@), ![t].value = Append(@, rows)]
    /\ UNCHANGED <<registry_vars, cache_vars, history_vars>>

\* The transaction function returned and execute_read committed.
ReadCommit(t) ==
    /\ task[t].pc = "read_tx"
    /\ task[t].todo = <<>>
    /\ task' = [task EXCEPT ![t].pc = "done", ![t].res = Ok(NoHandle),
                             ![t].value = ReadValue(task[t].op, TRUE, @)]
    /\ UNCHANGED <<registry_vars, cache_vars, history_vars>>

\* Beginning the transaction, a tx.run, a data() or the commit raised: the
\* except logs and [[]] is returned.
ReadRaise(t) ==
    /\ task[t].pc = "read_tx"
    /\ task' = [task EXCEPT ![t].pc = "done", ![t].res = Ok(NoHandle), ![t].caught = TRUE,
                             ![t].todo = <<>>,
                             ![t].value = ReadValue(task[t].op, FALSE, @)]
    /\ UNCHANGED <<registry_vars, cache_vars, history_vars>>

\* --------------------------------------------------------- task lifecycle
FirstPc(op) ==
    CASE op \in {"get_engine", "rel"} -> "eng_lock"
      [] op \in {"get_driver", "graph"} -> "drv_lock"

KindOf(op) == IF op \in {"get_engine", "rel"} THEN "engine" ELSE "driver"

BulkOps == {"init_db", "health", "close"}

\* The tasks that may still construct a handle of this kind for key p.
InFlight(kind, p) ==
    {t \in Tasks :
        \/ /\ task[t].op \in {"get_engine", "get_driver", "rel", "graph"}
           /\ task[t].pc \in {"eng_lock", "eng_query", "drv_lock", "drv_query"}
           /\ KindOf(task[t].op) = kind
           /\ task[t].plant = p
        \/ /\ task[t].op \in {"init_db", "health"}
           /\ task[t].pc # "done"
           /\ \E id \in TenantIds : p = py_str(id)}

BuildBudget(kind, p) == BuiltCount(kind, p) + Cardinality(InFlight(kind, p)) < MaxBuilds

\* A request or a caller starts coroutine op for the header value p.
Start(t, op, p) ==
    /\ task[t].pc = "idle"
    /\ BuildBudget(KindOf(op), p)
    /\ task' = [task EXCEPT ![t] = [IdleTask EXCEPT !.op = op, !.pc = FirstPc(op), !.plant = p]]
    /\ UNCHANGED <<registry_vars, cache_vars, history_vars>>

\* A route that declares Depends(get_plant_db_with_context) or
\* Depends(get_plant_neo4j_db_with_context): get_plant_context raises 400
\* `if not plant_id`, else the wrapper starts get_plant_db / get_plant_neo4j_db.
StartContext(t, op, p) ==
    /\ task[t].pc = "idle"
    /\ BuildBudget(KindOf(op), p)
    /\ task' = [task EXCEPT ![t] =
                   IF ~Truthy(p)
                   THEN [IdleTask EXCEPT !.op = op, !.plant = p, !.pc = "done",
                                         !.res = HTTPException(400)]
                   ELSE [IdleTask EXCEPT !.op = op, !.pc = FirstPc(op), !.plant = p]]
    /\ UNCHANGED <<registry_vars, cache_vars, history_vars>>

\* init_db, check_db_health or close_connections is called.
StartBulk(t, op) ==
    /\ task[t].pc = "idle"
    /\ op # "close" =>
          \A id \in TenantIds, kind \in {"engine", "driver"} : BuildBudget(kind, py_str(id))
    /\ task' = [task EXCEPT ![t] =
                   [IdleTask EXCEPT !.op = op,
                                    !.pc = CASE op = "init_db" -> "init_central"
                                             [] op = "health" -> "health_central"
                                             [] op = "close" -> "close_drv_lock"]]
    /\ closes' = (closes \/ op = "close")
    /\ UNCHANGED <<registry_vars, cache_vars, constructed, probed, returned, closed>>

\* The caller has its result and goes on.
Return(t) ==
    /\ task[t].pc = "done"
    /\ task[t].gen # "abandoned"
    /\ task' = [task EXCEPT ![t] = IdleTask]
    /\ UNCHANGED <<registry_vars, cache_vars, history_vars>>

\* ------------------------------------------------------- the environment
\* The administrative process sets plants_registry.is_active of row id.
SetPlantActive(id, b) ==
    /\ plants_registry[id] # b
    /\ plants_registry' = [plants_registry EXCEPT ![id] = b]
    /\ UNCHANGED <<user_plant_access, environ, down, cache_vars, task, history_vars>>

\* The administrative process sets user_plant_access.is_active of row g.
SetGrantActive(g, b) ==
    /\ user_plant_access[g] # b
    /\ user_plant_access' = [user_plant_access EXCEPT ![g] = b]
    /\ UNCHANGED <<plants_registry, environ, down, cache_vars, task, history_vars>>

\* A store stops answering, or answers again.
StoreFails(s) ==
    /\ s \notin down
    /\ down' = down \cup {s}
    /\ UNCHANGED <<plants_registry, user_plant_access, environ, cache_vars, task, history_vars>>

StoreRecovers(s) ==
    /\ s \in down
    /\ down' = down \ {s}
    /\ UNCHANGED <<plants_registry, user_plant_access, environ, cache_vars, task, history_vars>>

\* ------------------------------------------------------- specifications
GetSteps(t) ==
    \/ EngAcquire(t)
    \/ EngQuery(t)
    \/ DrvAcquire(t)
    \/ DrvQuery(t)
    \/ DrvProbe(t)

ScopeSteps(t) ==
    \/ WorkDone(t)
    \/ \E e \in WorkErrors : WorkRaise(t, e)
    \/ Finalize(t)

InitSteps(t) ==
    \/ InitCentral(t)
    \/ InitList(t)
    \/ InitCreate(t)
    \/ InitProbe(t)

HealthSteps(t) ==
    \/ HealthCentral(t)
    \/ HealthList(t)
    \/ HealthRelProbe(t)
    \/ HealthGraphProbe(t)

CloseSteps(t) ==
    \/ CloseAcquireDrivers(t)
    \/ \E ok \in BOOLEAN : CloseDriver(t, ok)
    \/ CloseCentral(t)
    \/ CloseAcquireEngines(t)
    \/ \E ok \in BOOLEAN : CloseEngine(t, ok)

\* Concurrent first accesses: two tasks call get_plant_engine and
\* get_plant_neo4j_driver under the names "1" and "01" of plant 1, while
\* plant 1 is deactivated and reactivated and its graph store fails and
\* recovers.
Next ==
    \/ \E t \in Tasks, op \in {"get_engine", "get_driver"},
          p \in {<<"1">>, <<"0", "1">>} : Start(t, op, p)
    \/ \E t \in Tasks : GetSteps(t) \/ Return(t)
    \/ \E b \in BOOLEAN : SetPlantActive(1, b)
    \/ StoreFails(GraphStore(1))
    \/ StoreRecovers(GraphStore(1))

Spec == Init /\ [][Next]_vars

\* Failure isolation: graph connections of plant 1 (whose graph store fails
\* and recovers) and of plant 3 (whose graph configuration is incomplete)
\* beside relational session scopes of the same plants.
NextIsolation ==
    \/ \E t \in Tasks, op \in {"get_driver", "get_engine", "rel"}, p \in {<<"1">>, <<"3">>} :
          Start(t, op, p)
    \/ \E t \in Tasks : GetSteps(t) \/ ScopeSteps(t) \/ Return(t)
    \/ StoreFails(GraphStore(1))
    \/ StoreRecovers(GraphStore(1))

SpecIsolation == Init /\ [][NextIsolation]_vars

\* The bulk operations beside requests: task 1 calls get_plant_engine and
\* get_plant_neo4j_driver for plant 1, task 2 runs init_db, check_db_health
\* and close_connections.
NextBulk ==
    \/ \E op \in {"get_engine", "get_driver"} : Start(1, op, <<"1">>)
    \/ \E op \in BulkOps : StartBulk(2, op)
    \/ \E t \in Tasks : GetSteps(t) \/ InitSteps(t) \/ HealthSteps(t) \/ CloseSteps(t) \/ Return(t)

SpecBulk == Init /\ [][NextBulk]_vars

\* init_db and check_db_health run one after another while the
\* administrative process switches plant 3 and the registry, the relational
\* store and the graph store of plant 1 fail and recover.
HealthStores == {Registry, RelStore(1), GraphStore(1)}

NextHealth ==
    \/ \E op \in {"init_db", "health"} : StartBulk(2, op)
    \/ \E t \in Tasks : GetSteps(t) \/ InitSteps(t) \/ HealthSteps(t) \/ Return(t)
    \/ \E b \in BOOLEAN : SetPlantActive(3, b)
    \/ \E s \in HealthStores : StoreFails(s)
    \/ \E s \in HealthStores : StoreRecovers(s)

SpecHealth == Init /\ [][NextHealth]_vars

\* A store that accepts the connection and never answers: the await on it
\* has no timeout, so it ends only when the answer comes.
Hung(s) == <<s[1], s[2] + HungOffset>>

StoreHangs(s) ==
    /\ Hung(s) \notin down
    /\ down' = down \cup {Hung(s)}
    /\ UNCHANGED <<plants_registry, user_plant_access, environ, cache_vars, task, history_vars>>

\* The awaits of a get end when their store answers.
EngAnswered(t) == Hung(Registry) \notin down /\ EngQuery(t)

DrvAnswered(t) == Hung(Registry) \notin down /\ DrvQuery(t)

DrvProbeAnswered(t) ==
    /\ task[t].pc = "drv_probe"
    /\ Hung(GraphStore(task[t].h.tenant)) \notin down
    /\ DrvProbe(t)

GetProgress(t) ==
    \/ EngAcquire(t)
    \/ DrvAcquire(t)
    \/ EngAnswered(t)
    \/ DrvAnswered(t)
    \/ DrvProbeAnswered(t)
    \/ Return(t)

\* Calls of get_plant_engine and get_plant_neo4j_driver for plant 1 while
\* the registry or the graph store of plant 1 may stop answering for good.
\* The event loop runs every task that can go on, and asyncio.Lock hands
\* the lock to its waiters in turn.
NextHang ==
    \/ \E t \in Tasks, op \in {"get_engine", "get_driver"} : Start(t, op, <<"1">>)
    \/ \E t \in Tasks : GetProgress(t)
    \/ StoreHangs(Registry)
    \/ StoreHangs(GraphStore(1))

SpecHang == Init /\ [][NextHang]_vars /\ \A t \in Tasks : SF_vars(GetProgress(t))

\* The users of the two locks side by side: task 1 calls get_plant_engine
\* and get_plant_neo4j_driver for plant 1 while task 2 runs init_db,
\* check_db_health and close_connections (every close succeeding).
NextLocks ==
    \/ \E op \in {"get_engine", "get_driver"} : Start(1, op, <<"1">>)
    \/ \E op \in BulkOps : StartBulk(2, op)
    \/ \E t \in Tasks :
          \/ GetSteps(t) \/ InitSteps(t) \/ HealthSteps(t) \/ Return(t)
          \/ CloseAcquireDrivers(t) \/ CloseDriver(t, TRUE) \/ CloseCentral(t)
          \/ CloseAcquireEngines(t) \/ CloseEngine(t, TRUE)

SpecLocks == Init /\ [][NextLocks]_vars

\* Shutdown beside requests: task 1 runs units of work in session scopes of
\* plant 1 while task 2 calls close_connections.
NextShutdown ==
    \/ \E op \in ScopeOps : Start(1, op, <<"1">>)
    \/ StartBulk(2, "close")
    \/ \E t \in Tasks : GetSteps(t) \/ ScopeSteps(t) \/ CloseSteps(t) \/ Return(t)

SpecShutdown == Init /\ [][NextShutdown]_vars

\* Callers of KnowledgeGraph.read_queries and read_query, each round trip
\* answering or raising.
NextRead ==
    \/ \E t \in Tasks, queries \in QueryLists : StartRead(t, "read_queries", queries)
    \/ \E t \in Tasks, q \in QueryIds : StartRead(t, "read_query", <<q>>)
    \/ \E t \in Tasks :
          \/ \E q \in QueryIds : \E rows \in Answers(q) : ReadRun(t, rows)
          \/ ReadCommit(t)
          \/ ReadRaise(t)
          \/ Return(t)

SpecRead == Init /\ [][NextRead]_vars

\* Requests at the two kinds of route for plant 1 and for no plant, by a
\* caller with a grant (4) and one without (5), while the grant (4, 1) is
\* switched.
NextRoute ==
    \/ \E t \in Tasks, route \in Routes, p \in {<<"1">>, <<>>}, u \in {<<"4">>, <<"5">>, None} :
          StartRoute(t, route, p, u)
    \/ \E t \in Tasks :
          EngAcquire(t) \/ EngQuery(t) \/ RouteMiddleware(t) \/ AccessQuery(t) \/ Return(t)
    \/ \E b \in BOOLEAN : SetGrantActive(<<4, 1>>, b)

SpecRoute == Init /\ [][NextRoute]_vars

\* Shutdown with no get running beside it: one caller runs init_db,
\* check_db_health and close_connections one after another, and a second
\* caller calls close_connections right after the first one's returned.
NextClose ==
    \/ \E op \in BulkOps : task[2].pc = "idle" /\ StartBulk(1, op)
    \/ (task[1].op = "close" /\ task[1].pc = "done" /\ StartBulk(2, "close"))
    \/ \E t \in Tasks :
          GetSteps(t) \/ InitSteps(t) \/ HealthSteps(t) \/ CloseSteps(t) \/ Return(t)

SpecClose == Init /\ [][NextClose]_vars

\* Session scopes: get_plant_db and get_plant_neo4j_db consumed by `async
\* for`, for plant 1 (configured), plant 2 (relational configuration
\* incomplete) and plant 9 (no registry row), with the unit of work ending
\* normally or raising, and the asyncgen finalizer.
NextScope ==
    \/ \E t \in Tasks, op \in ScopeOps, p \in {<<"1">>, <<"2">>, <<"9">>} : Start(t, op, p)
    \/ \E t \in Tasks : GetSteps(t) \/ ScopeSteps(t) \/ Return(t)
    \/ StoreFails(GraphStore(1))
    \/ StoreRecovers(GraphStore(1))

SpecScope == Init /\ [][NextScope]_vars

\* Access validation beside get_plant_engine for plant 1, while the
\* administrative process switches plant 1 and the grant (4, 1) and the
\* registry fails and recovers.
NextAccess ==
    \/ \E t \in Tasks, p \in {<<"1">>, <<"0", "1">>, <<"x">>, None}, u \in UserIds :
          StartMiddleware(t, p, u)
    \/ \E t \in Tasks, p \in {<<"1">>, <<"2">>, <<"x">>}, u \in {<<"4">>, <<"5">>} :
          StartValidate(t, p, u)
    \/ \E t \in Tasks : Start(t, "get_engine", <<"1">>)
    \/ \E t \in Tasks : EngAcquire(t) \/ EngQuery(t) \/ AccessQuery(t) \/ Return(t)
    \/ \E b \in BOOLEAN : SetPlantActive(1, b) \/ SetGrantActive(<<4, 1>>, b)
    \/ StoreFails(Registry)
    \/ StoreRecovers(Registry)

SpecAccess == Init /\ [][NextAccess]_vars

\* Resolving and validating requests: the middleware and
\* QueryService.execute_query for plant 1 under two spellings, the unknown
\* plant 9, a non-number and missing headers, for callers 4 (granted), 5, 0,
\* a non-number and none, while the grant (4, 1) is switched and the
\* registry fails and recovers.
NextResolve ==
    \/ \E t \in Tasks, p \in {<<"1">>, <<"0", "1">>, <<"9">>, <<"x">>, <<>>, None},
          u \in UserIds : StartMiddleware(t, p, u)
    \/ \E t \in Tasks, p \in {<<"1">>, <<"x">>, None}, u \in {<<"4">>, <<"5">>, <<"0">>, None} :
          StartExecuteQuery(t, p, u)
    \/ \E t \in Tasks : AccessQuery(t) \/ Return(t) \/ \E ok \in BOOLEAN : ExecRun(t, ok)
    \/ \E b \in BOOLEAN : SetGrantActive(<<4, 1>>, b)
    \/ StoreFails(Registry)
    \/ StoreRecovers(Registry)

SpecResolve == Init /\ [][NextResolve]_vars

\* The two ways into a session scope: through get_plant_context (the
\* routes), and by a direct call of get_plant_db / get_plant_neo4j_db with
\* the plant_id the caller was given (the services, whose plant_id
\* parameter defaults to None), with and without a tenant id.
NextContext ==
    \/ \E t \in Tasks, op \in ScopeOps, p \in {<<"1">>, <<>>, None} : StartContext(t, op, p)
    \/ \E t \in Tasks, op \in ScopeOps, p \in {<<"1">>, <<>>, None} : Start(t, op, p)
    \/ \E t \in Tasks : GetSteps(t) \/ ScopeSteps(t) \/ Return(t)

SpecContext == Init /\ [][NextContext]_vars

\* Ids that name no active row: the gets and the session scopes for plant 1
\* while it is deactivated and reactivated, for the unknown plant 9 and for
\* the non-number "x".
NextNotFound ==
    \/ \E t \in Tasks, op \in {"get_engine", "get_driver"} \cup ScopeOps,
          p \in {<<"1">>, <<"9">>, <<"x">>} : Start(t, op, p)
    \/ \E t \in Tasks : GetSteps(t) \/ ScopeSteps(t) \/ Return(t)
    \/ \E b \in BOOLEAN : SetPlantActive(1, b)

SpecNotFound == Init /\ [][NextNotFound]_vars

\* ------------------------------------------------------------------ claims
ReturnedFor(kind, p) == {h \in returned : h.kind = kind /\ h.key = p}

CacheOf(kind) == IF kind = "engine" THEN plant_engines ELSE plant_neo4j_drivers

Kinds == {"engine", "driver"}

\* C1 (as the claim states it): with no close_connections, once a call for
\* key p has returned, exactly one engine pair (one driver) has been
\* constructed for p, and every call that returned got that one.
C1_ExactlyOneConstructed ==
    \A kind \in Kinds, p \in PlantIds :
        ReturnedFor(kind, p) # {} =>
            /\ BuiltCount(kind, p) = 1
            /\ Cardinality(ReturnedFor(kind, p)) = 1

\* C1 (amended): concurrent first calls for key p construct at most one
\* engine pair, exactly one once a call has returned, and every call that
\* returns gets that pair, which is the cached one; every get_plant_neo4j_driver
\* call that returns gets the one cached driver, the only one whose probe
\* succeeded, while each driver whose probe failed was constructed too, was
\* returned to nobody and is not cached.
C1_OneHandleReturned ==
    \A p \in PlantIds :
        /\ BuiltCount("engine", p) <= 1
        /\ ReturnedFor("engine", p) # {} => BuiltCount("engine", p) = 1
        /\ \A kind \in Kinds :
              /\ Cardinality(ReturnedFor(kind, p)) <= 1
              /\ \A h \in ReturnedFor(kind, p) : p \in DOMAIN CacheOf(kind) /\ CacheOf(kind)[p] = h
        /\ Cardinality({h \in constructed : h.kind = "driver" /\ h.key = p /\ h \in probed}) <= 1
        /\ \A h \in constructed :
              (h.kind = "driver" /\ h.key = p /\ h \notin probed) => h \notin returned

\* C1 witness: two concurrent get_plant_neo4j_driver calls for one key, the
\* first ended 503 on its probe, the second constructed a second driver and
\* returned it.
C1_Witness ==
    \E t1, t2 \in Tasks :
        /\ t1 # t2
        /\ task[t1].op = "get_driver" /\ task[t2].op = "get_driver"
        /\ task[t1].plant = task[t2].plant
        /\ task[t1].pc = "done" /\ task[t1].res = HTTPException(503)
        /\ task[t2].pc = "done" /\ task[t2].res.kind = "ok"
        /\ plant_neo4j_drivers[task[t2].plant] = task[t2].res.h
        /\ BuiltCount("driver", task[t2].plant) = 2

\* C2 (as the claim states it): at most one cached engine and at most one
\* cached driver per registry row, whatever strings named the row.
C2_OneEntryPerTenant ==
    \A id \in TenantIds, kind \in Kinds :
        Cardinality({p \in DOMAIN CacheOf(kind) : CacheOf(kind)[p].tenant = id}) <= 1

\* C3 (as the claim states it): while the row a key names is inactive and the
\* registry answers, a get_plant_engine / get_plant_neo4j_driver call that
\* takes its cache check or gets its registry answer, and ends there, ends
\* with 404.  (A call that ends in its probe looked the row up earlier.)
C3_InactiveIs404 ==
    [][\A t \in Tasks :
          (/\ task[t].op \in {"get_engine", "get_driver"}
           /\ task[t].pc \in {"eng_lock", "eng_query", "drv_lock", "drv_query"}
           /\ task'[t].pc = "done"
           /\ py_int(task[t].plant).ok
           /\ Registry \notin down
           /\ select_active_plant(py_int(task[t].plant).val) = 0)
          => task'[t].res = HTTPException(404)]_vars

\* Whether get_plant_engine(p) has what it needs to succeed now: an entry,
\* or an active row, a registry that answers and a complete configuration.
EngineAvailable(p) ==
    \/ p \in DOMAIN plant_engines
    \/ /\ py_int(p).ok
       /\ Registry \notin down
       /\ select_active_plant(py_int(p).val) # 0
       /\ get_plant_database_url(environ, database_key(py_int(p).val)).ok

GraphTroubled(p) ==
    \/ GraphStore(py_int(p).val) \in down
    \/ ~get_plant_neo4j_config(environ, neo4j_key(py_int(p).val)).ok
    \/ \E t \in Tasks : task[t].plant = p /\ task[t].pc \in {"drv_query", "drv_probe"}
    \/ \E t \in Tasks : task[t].plant = p /\ task[t].op = "get_driver" /\ task[t].pc = "done"
                          /\ task[t].res.kind # "ok"

\* C4: no step of a get_plant_neo4j_driver call changes plant_engines, every
\* engine pair once returned stays cached unchanged, and a get_plant_engine
\* call, made directly or for a get_plant_db scope while the plant's graph
\* store is down, its graph configuration missing, a graph build in progress
\* or failed, ends with the cached pair (and, for the scope, an open session)
\* whenever the relational side has what it needs.
C4_GraphFailureIsolated ==
    /\ [](\A h \in returned :
            h.kind = "engine" => (h.key \in DOMAIN plant_engines /\ plant_engines[h.key] = h))
    /\ [][\A t \in Tasks :
            /\ (task[t].pc \in {"drv_lock", "drv_query", "drv_probe"} /\ task'[t] # task[t])
               => plant_engines' = plant_engines
            /\ (/\ task[t].op \in {"get_engine", "rel"}
                /\ task[t].pc \in {"eng_lock", "eng_query"}
                /\ task'[t].pc \notin {"eng_lock", "eng_query"}
                /\ GraphTroubled(task[t].plant)
                /\ EngineAvailable(task[t].plant))
               => IF task[t].op = "rel"
                  THEN /\ task'[t].pc = "work"
                       /\ task'[t].sess = "open"
                       /\ task'[t].h = plant_engines'[task[t].plant]
                  ELSE /\ task'[t].pc = "done"
                       /\ task'[t].res = Ok(plant_engines'[task[t].plant])]_vars

\* C4 witness: the graph store of a plant is down, a get_plant_neo4j_driver
\* for it has ended 503, and a get_plant_db scope of the same plant holds
\* its open session.
C4_Witness ==
    \E t1, t2 \in Tasks :
        /\ task[t1].op = "get_driver" /\ task[t1].pc = "done"
        /\ task[t1].res = HTTPException(503)
        /\ GraphStore(py_int(task[t1].plant).val) \in down
        /\ task[t2].op = "rel" /\ task[t2].pc = "work" /\ task[t2].sess = "open"
        /\ task[t2].plant = task[t1].plant

\* C6: a step that removes or replaces an entry of plant_engines or
\* plant_neo4j_drivers is a step of close_connections; a step that constructs
\* a handle for key p finds no entry for p; and a get that ends while p has
\* an entry gives its caller (a request, init_db, check_db_health) exactly
\* that entry.
C6_EntriesImmutable ==
    [][/\ \A kind \in Kinds : \A p \in DOMAIN CacheOf(kind) :
            (p \notin DOMAIN CacheOf(kind)' \/ CacheOf(kind)'[p] # CacheOf(kind)[p])
            => \E t \in Tasks : task[t].op = "close"
                                 /\ task[t].pc \in {"close_drivers", "close_engines"}
       /\ \A h \in constructed' \ constructed : h.key \notin DOMAIN CacheOf(h.kind)
       /\ \A t \in Tasks :
            /\ (task[t].pc = "eng_lock" /\ task'[t].pc # "eng_lock"
                 /\ task[t].plant \in DOMAIN plant_engines)
               => (/\ plant_engines' = plant_engines
                   /\ IF task[t].op = "get_engine"
                      THEN task'[t].res = Ok(plant_engines[task[t].plant])
                      ELSE task'[t].h = plant_engines[task[t].plant])
            /\ (task[t].pc = "drv_lock" /\ task'[t].pc # "drv_lock"
                 /\ task[t].plant \in DOMAIN plant_neo4j_drivers)
               => (/\ plant_neo4j_drivers' = plant_neo4j_drivers
                   /\ IF task[t].op = "get_driver"
                      THEN task'[t].res = Ok(plant_neo4j_drivers[task[t].plant])
                      ELSE task'[t].h = plant_neo4j_drivers[task[t].plant])]_vars

\* C6 witness: check_db_health probes the engine a request's get_plant_engine
\* built, and close_connections has not run.
C6_Witness ==
    \E t1, t2 \in Tasks :
        /\ ~closes
        /\ task[t1].op = "get_engine" /\ task[t1].pc = "done" /\ task[t1].res.kind = "ok"
        /\ task[t2].op = "health" /\ task[t2].pc = "health_rel_probe"
        /\ task[t2].h = task[t1].res.h
        /\ task[t2].h = plant_engines[task[t1].plant]
        /\ BuiltCount("engine", task[t1].plant) = 1

\* C7: when the caller of a get_plant_db scope has the exception its unit of
\* work raised, session.rollback() has been executed on the scope's session.
C7_RollbackBeforeRaise ==
    \A t \in Tasks :
        (/\ task[t].op = "rel"
         /\ task[t].pc = "done"
         /\ task[t].sess # "none"
         /\ task[t].res.kind # "ok")
        => task[t].rb

\* C8: once the caller of a get_plant_db / get_plant_neo4j_db scope has
\* returned or raised, the session opened for it is not open.
C8_ClosedOnEveryExit ==
    \A t \in Tasks :
        (task[t].op \in ScopeOps /\ task[t].pc = "done") => task[t].sess # "open"

\* C9: a 404 / 500 / 503 raised while obtaining the handle is what the
\* caller of the scope receives, and an exception raised by the unit of work
\* is what the caller receives, with the session closed by then.
C9_PropagatedAfterCleanup ==
    [][\A t \in Tasks : task[t].op \in ScopeOps =>
        /\ (task[t].pc = "eng_query" /\ task'[t].pc = "done"
             /\ engine_lookup(task[t].plant).kind = "http")
            => task'[t].res = engine_lookup(task[t].plant)
        /\ (task[t].pc = "drv_query" /\ task'[t].pc = "done"
             /\ driver_lookup(task[t].plant).kind = "http")
            => task'[t].res = driver_lookup(task[t].plant)
        /\ (task[t].pc = "drv_probe" /\ task'[t].pc = "done")
            => task'[t].res = HTTPException(503)
        /\ (task[t].pc = "work" /\ task'[t].pc = "done")
            => \/ task'[t].res.kind = "ok"
               \/ (task'[t].res \in WorkErrors /\ task'[t].sess = "closed")]_vars

\* The rows the access query joins, read from the registry as it is now.
ActiveGrant(u, p) ==
    /\ py_int(u).ok /\ py_int(p).ok
    /\ <<py_int(u).val, py_int(p).val>> \in GrantRows
    /\ user_plant_access[<<py_int(u).val, py_int(p).val>>]

ActivePlant(p) ==
    /\ py_int(p).ok
    /\ py_int(p).val \in TenantIds
    /\ plants_registry[py_int(p).val]

AccessCall(t) ==
    /\ task[t].pc \in {"idle", "access_query"}
    /\ task'[t].pc = "done"
    /\ task'[t].op \in {"validate", "middleware"}
    /\ task'[t].op = "middleware" => task'[t].res.code \notin {400, 401, 500}

\* C10 as stated: validate_plant_access returns true iff the active grant
\* row and the active plant row exist at the time of the query.
C10_TrueIffRows ==
    [][\A t \in Tasks : AccessCall(t) =>
          (task'[t].has_access <=>
              (ActiveGrant(task'[t].user, task'[t].plant) /\ ActivePlant(task'[t].plant)))]_vars

\* C10 amended: validate_plant_access returns true iff its registry query
\* succeeds and finds the active grant row and the active plant row at that
\* time (a failed query or a non-numeric plant_id gives false); the call
\* leaves the connection caches alone and its value is the same whatever
\* they hold; and validate_plant_access_middleware returns the context when
\* the value is true and raises 403 when it is false.
C10_TrueIffQueryFindsRows ==
    [][\A t \in Tasks : AccessCall(t) =>
          /\ task'[t].has_access <=>
                (/\ Registry \notin down
                 /\ ActiveGrant(task'[t].user, task'[t].plant)
                 /\ ActivePlant(task'[t].plant))
          /\ cache_vars' = cache_vars
          /\ task'[t].op = "middleware" =>
                task'[t].res = IF task'[t].has_access THEN Ok(NoHandle) ELSE HTTPException(403)]_vars

\* C10 witness: plant 1 was deactivated while its engine stays cached, and
\* the middleware has refused caller 4, whose grant is active, with 403
\* while the registry answers.
C10_Witness ==
    \E t \in Tasks :
        /\ task[t].op = "middleware" /\ task[t].pc = "done"
        /\ task[t].plant = <<"1">> /\ task[t].user = <<"4">>
        /\ task[t].res = HTTPException(403)
        /\ user_plant_access[<<4, 1>>]
        /\ ~plants_registry[1]
        /\ Registry \notin down
        /\ <<"1">> \in DOMAIN plant_engines

\* Whether this call of the middleware or of execute_query calls
\* validate_plant_access.
Validates(tk) ==
    \/ tk.op = "validate"
    \/ tk.op = "middleware" /\ Truthy(tk.plant) /\ Truthy(tk.user) /\ py_int(tk.user).ok
    \/ tk.op = "execute_query" /\ Truthy(tk.plant) /\ tk.user # None /\ py_int(tk.user).val # 0

Refused(tk) ==
    /\ tk.pc = "done"
    /\ ~tk.has_access
    /\ tk.res = CASE tk.op = "middleware" -> HTTPException(403)
                  [] tk.op = "execute_query" -> Raise("PermissionError")
                  [] OTHER -> Ok(NoHandle)

\* C11: a validate_plant_access whose registry query fails (the registry
\* does not answer, or int(plant_id) raises) returns False without raising,
\* and its caller is refused: 403 from the middleware, PermissionError from
\* execute_query; and the middleware returns a context, and an execute_query
\* that validates runs its query, only with a True value.
C11_FailClosed ==
    /\ [](\A t \in Tasks :
            /\ (task[t].op = "middleware" /\ task[t].res.kind = "ok") => task[t].has_access
            /\ (task[t].op = "execute_query" /\ Validates(task[t])
                 /\ (task[t].pc = "exec_run" \/ task[t].res \in {Ok(NoHandle), Raise("DBAPIError")}))
               => task[t].has_access)
    /\ [][\A t \in Tasks :
            /\ (task[t].pc = "access_query" /\ task'[t].pc # "access_query"
                 /\ Registry \in down) => Refused(task'[t])
            /\ (task[t].pc = "idle" /\ task'[t].pc # "idle" /\ Validates(task'[t])
                 /\ ~py_int(task'[t].plant).ok) => Refused(task'[t])]_vars

\* C11 witness: while the registry does not answer, the middleware refused
\* caller 4 of plant 1, whose grant and plant are active, with 403, and
\* execute_query refused the same caller with PermissionError.
C11_Witness ==
    \E t1, t2 \in Tasks :
        /\ Registry \in down /\ user_plant_access[<<4, 1>>] /\ plants_registry[1]
        /\ task[t1].op = "middleware" /\ task[t1].plant = <<"1">> /\ task[t1].user = <<"4">>
        /\ task[t1].pc = "done" /\ task[t1].res = HTTPException(403)
        /\ task[t2].op = "execute_query" /\ task[t2].plant = <<"1">> /\ task[t2].user = <<"4">>
        /\ task[t2].pc = "done" /\ task[t2].res = Raise("PermissionError")

\* C12: the middleware returns a context only with both headers present
\* and a True validate_plant_access, and the context holds the header's
\* plant_id and int(auth_user_id); without x-user-id it raises 401 in the
\* step it starts in, before any registry query; a False value gives 403.
C12_ContextOnlyWhenValidated ==
    /\ [](\A t \in Tasks : (task[t].op = "middleware" /\ task[t].pc = "done") =>
            /\ task[t].res.kind = "ok" =>
                  /\ Truthy(task[t].plant) /\ Truthy(task[t].user) /\ py_int(task[t].user).ok
                  /\ task[t].has_access
                  /\ task[t].ctx = [plant_id |-> task[t].plant,
                                     auth_user_id |-> py_int(task[t].user).val]
            /\ task[t].res.kind # "ok" => task[t].ctx = NoContext
            /\ (Validates(task[t]) /\ ~task[t].has_access) => task[t].res = HTTPException(403))
    /\ [][\A t \in Tasks :
            (task[t].pc = "idle" /\ task'[t].op = "middleware"
             /\ Truthy(task'[t].plant) /\ ~Truthy(task'[t].user))
            => (task'[t].pc = "done" /\ task'[t].res = HTTPException(401))]_vars

\* C12 witness: the middleware returned the context of caller 4 for the
\* header value "01", and beside it refused a request without x-user-id.
C12_Witness ==
    \E t1, t2 \in Tasks :
        /\ task[t1].op = "middleware" /\ task[t1].pc = "done" /\ task[t1].res.kind = "ok"
        /\ task[t1].ctx = [plant_id |-> <<"0", "1">>, auth_user_id |-> 4]
        /\ task[t2].op = "middleware" /\ task[t2].pc = "done"
        /\ task[t2].user = None /\ task[t2].res = HTTPException(401)

\* C14: given a numeric caller id, the middleware ends with 404 for a plant
\* id that has no registry row; for an active plant it ends with 403 for a
\* caller without an active grant and returns the context for one with.
C14_UnknownTenantIs404 ==
    \A t \in Tasks : (task[t].op = "middleware" /\ task[t].pc = "done"
                      /\ py_int(task[t].plant).ok /\ Validates(task[t])) =>
        IF py_int(task[t].plant).val \notin TenantIds
        THEN task[t].res = HTTPException(404)
        ELSE plants_registry[py_int(task[t].plant).val]
             => (task[t].res.kind = "ok" \/ task[t].res = HTTPException(403))

\* C13: a call without a tenant id (None or "") never takes the step of
\* get_plant_engine / get_plant_neo4j_driver that looks the cache up and
\* goes on to the registry, and ends with 400.
C13_NoAccessWithoutTenant ==
    [][\A t \in Tasks :
          /\ (task[t].pc \in {"eng_lock", "drv_lock"} /\ task'[t] # task[t])
             => Truthy(task[t].plant)
          /\ (task'[t].op \in ScopeOps /\ task'[t].pc = "done" /\ ~Truthy(task'[t].plant))
             => task'[t].res = HTTPException(400)]_vars

\* Whether p names no active registry row now.
NamesNoActiveRow(p) == ~py_int(p).ok \/ select_active_plant(py_int(p).val) = 0

\* C15: while the registry answers, a get_plant_engine / get_plant_db /
\* get_plant_neo4j_driver / get_plant_neo4j_db call for an id that has no
\* cache entry and names no active row (unknown, inactive, or not a number)
\* ends with 404 and leaves both caches as they were.
C15_NoActiveRowIs404 ==
    [][\A t \in Tasks :
          (/\ task[t].op \in {"get_engine", "get_driver"} \cup ScopeOps
           /\ task[t].pc \in {"eng_lock", "eng_query", "drv_lock", "drv_query"}
           /\ task'[t].pc = "done"
           /\ task[t].plant \notin DOMAIN CacheOf(KindOf(task[t].op))
           /\ Registry \notin down
           /\ NamesNoActiveRow(task[t].plant))
          => (/\ task'[t].res = HTTPException(404)
              /\ plant_engines' = plant_engines
              /\ plant_neo4j_drivers' = plant_neo4j_drivers)]_vars

\* C16: every engine pair and every driver that was constructed was
\* constructed for a key whose host, port, user, password and database
\* values are all set in the environment.
C16_NoDefaults ==
    \A h \in constructed :
        /\ h.kind = "engine" =>
              \A x \in RelSuffixes : <<database_key(h.tenant), x>> \in environ
        /\ h.kind = "driver" =>
              \A x \in GraphSuffixes : <<neo4j_key(h.tenant), x>> \in environ

Entries(tk, kind, id) == {e \in tk.report : e[1] = kind /\ e[2] = id}

InSeq(x, q) == \E i \in 1..Len(q) : q[i] = x

\* C17: once init_db is past init_central_db and its listing it returns
\* without raising, and on return every listed plant has its relational
\* attempt recorded; with plants 1, 2, 3 listed, plant 2 without its
\* database name and all stores answering, plants 1 and 3 are READY with
\* their engines cached and plant 2 is FAILED with no engine cached.
C17_InitToleratesFailures ==
    /\ [](\A t \in Tasks :
            (task[t].op = "init_db" /\ task[t].pc = "done" /\ task[t].res.kind = "ok"
             /\ task[t].listed = <<1, 2, 3>> /\ down = {})
            => (/\ <<"rel", 1, "READY">> \in task[t].report
                /\ <<"rel", 3, "READY">> \in task[t].report
                /\ <<"rel", 2, "FAILED">> \in task[t].report
                /\ py_str(1) \in DOMAIN plant_engines
                /\ py_str(3) \in DOMAIN plant_engines
                /\ py_str(2) \notin DOMAIN plant_engines))
    /\ [][\A t \in Tasks :
            (task[t].op = "init_db" /\ task[t].pc \notin {"init_central", "init_list", "done"}
             /\ task'[t].pc = "done")
            => (/\ task'[t].res = Ok(NoHandle)
                /\ \A id \in TenantIds :
                      InSeq(id, task'[t].listed) => Entries(task'[t], "rel", id) # {})]_vars

\* C17 witness: init_db has returned normally with plant 2 FAILED, plant 3
\* READY after it, the engine of plant 3 cached and none for plant 2.
C17_Witness ==
    \E t \in Tasks :
        /\ task[t].op = "init_db" /\ task[t].pc = "done" /\ task[t].res = Ok(NoHandle)
        /\ task[t].listed = <<1, 2, 3>>
        /\ <<"rel", 2, "FAILED">> \in task[t].report
        /\ <<"rel", 3, "READY">> \in task[t].report
        /\ py_str(3) \in DOMAIN plant_engines
        /\ py_str(2) \notin DOMAIN plant_engines

\* C18: when init_db returns normally, every listed plant has an attempt
\* recorded for both kinds, READY or FAILED.
C18_BothKindsAttempted ==
    \A t \in Tasks :
        (task[t].op = "init_db" /\ task[t].pc = "done" /\ task[t].res.kind = "ok")
        => \A id \in TenantIds :
              InSeq(id, task[t].listed) =>
                 (Entries(task[t], "rel", id) # {} /\ Entries(task[t], "graph", id) # {})

IsBulk(tk) == tk.op \in {"init_db", "health"}

\* C19: check_db_health ends without raising; when its listing succeeded the
\* report holds one relational and one graph entry for every listed plant;
\* and every failing step (registry probe, listing, relational build or
\* probe, graph build or probe) adds a false entry to the report.
C19_EveryFailureRecorded ==
    /\ [](\A t \in Tasks :
            (task[t].op = "health" /\ task[t].pc = "done")
            => (/\ task[t].res = Ok(NoHandle)
                /\ \A id \in TenantIds :
                      InSeq(id, task[t].listed) =>
                         (/\ Cardinality(Entries(task[t], "rel", id)) = 1
                          /\ Cardinality(Entries(task[t], "graph", id)) = 1)))
    /\ [][\A t \in Tasks :
            (task[t].op = "health" /\ task'[t] # task[t]) =>
               (/\ (task[t].pc = "health_central" /\ Registry \in down)
                      => <<"central", 0, "false">> \in task'[t].report
                /\ (task[t].pc = "health_list" /\ Registry \in down)
                      => \E e \in task'[t].report \ task[t].report : e[3] = "false"
                /\ (task[t].pc = "health_rel_probe" /\ RelStore(Head(task[t].todo)) \in down)
                      => <<"rel", Head(task[t].todo), "false">> \in task'[t].report
                /\ (task[t].pc = "health_graph_probe" /\ GraphStore(Head(task[t].todo)) \in down)
                      => <<"graph", Head(task[t].todo), "false">> \in task'[t].report
                /\ (task[t].pc \in {"eng_lock", "eng_query"}
                    /\ task'[t].pc \notin {"eng_lock", "eng_query", "health_rel_probe"})
                      => <<"rel", Head(task[t].todo), "false">> \in task'[t].report
                /\ (task[t].pc \in {"drv_lock", "drv_query", "drv_probe"}
                    /\ task'[t].pc \notin {"drv_lock", "drv_query", "drv_probe", "health_graph_probe"})
                      => <<"graph", Head(task[t].todo), "false">> \in task'[t].report)]_vars

\* C20: while the plant a bulk operation is visiting is inactive in the
\* registry, the operation builds no handle for it, does not bootstrap or
\* probe it, and check_db_health adds no report entry for it.
C20_InactiveSkipped ==
    [][\A t \in Tasks :
          (IsBulk(task[t]) /\ task[t].todo # <<>> /\ ~plants_registry[Head(task[t].todo)]) =>
             (/\ \A h \in (constructed' \ constructed) \cup (probed' \ probed) :
                    h.tenant # Head(task[t].todo)
              /\ task[t].op = "health" => task'[t].report = task[t].report
              /\ task[t].pc \in {"init_create", "init_probe", "health_rel_probe",
                                  "health_graph_probe"} => task'[t] = task[t])]_vars

\* C21: close_connections visits every cached driver and every cached engine,
\* goes on to the next handle whether or not a close failed, never raises,
\* and with no get beside it both caches are empty when it has returned.
C21_CloseAllTolerant ==
    /\ [](\A t \in Tasks :
            (task[t].op = "close" /\ task[t].pc = "done")
            => (/\ task[t].res = Ok(NoHandle)
                /\ plant_engines = EmptyCache
                /\ plant_neo4j_drivers = EmptyCache))
    /\ [][\A t \in Tasks :
            (task[t].op = "close" /\ task'[t] # task[t]) =>
               (/\ task'[t].res.kind \in {"none", "ok"}
                /\ task'[t].pc = "close_drivers" /\ task[t].pc = "close_drv_lock"
                     => \A k \in DOMAIN plant_neo4j_drivers : InSeq(k, task'[t].todo)
                /\ task'[t].pc = "close_engines" /\ task[t].pc = "close_eng_lock"
                     => \A k \in DOMAIN plant_engines : InSeq(k, task'[t].todo)
                /\ task[t].pc = "close_drivers"
                     => IF Len(task[t].todo) > 1
                        THEN task'[t].pc = "close_drivers" /\ task'[t].todo = Tail(task[t].todo)
                        ELSE task'[t].pc = "close_central"
                /\ task[t].pc = "close_engines"
                     => IF Len(task[t].todo) > 1
                        THEN task'[t].pc = "close_engines" /\ task'[t].todo = Tail(task[t].todo)
                        ELSE task'[t].pc = "done"
                /\ task[t].pc = "close_central" => task'[t].pc = "close_eng_lock")]_vars

\* C21 witness: close_connections has returned with both caches empty after
\* one engine failed to dispose and another engine was disposed.
C21_Witness ==
    \E t \in Tasks, h1, h2 \in constructed :
        /\ task[t].op = "close" /\ task[t].pc = "done" /\ task[t].res = Ok(NoHandle)
        /\ h1.kind = "engine" /\ h2.kind = "engine" /\ h1.tenant # h2.tenant
        /\ h1 \notin closed /\ h2 \in closed
        /\ plant_engines = EmptyCache /\ plant_neo4j_drivers = EmptyCache

\* A close_connections call by t made right after the call of u returned.
SecondClose(t, u) ==
    /\ t # u
    /\ task[u].op = "close" /\ task[u].pc = "done"
    /\ task'[t].op = "close" /\ task'[t] # task[t]

\* C22: a close_connections call that follows another one finds both caches
\* empty at every step, closes no handle, leaves caches and locks as they
\* were and returns normally.
C22_SecondCloseIdle ==
    [][\A t, u \in Tasks :
          SecondClose(t, u) =>
             (/\ plant_engines = EmptyCache /\ plant_neo4j_drivers = EmptyCache
              /\ closed' = closed
              /\ cache_vars' = cache_vars
              /\ task'[t].res.kind \in {"none", "ok"}
              /\ task'[t].pc = "done" => task'[t].res = Ok(NoHandle))]_vars

\* C22 witness: the second close_connections call has returned beside the
\* first one's result, after the first one closed a handle.
C22_Witness ==
    /\ task[1].op = "close" /\ task[1].pc = "done"
    /\ task[2].op = "close" /\ task[2].pc = "done" /\ task[2].res = Ok(NoHandle)
    /\ closed # {}

\* C23: at every route a session is opened for a request, and an engine
\* built for it, only after its caller's access has been validated.
C23_AccessBeforeConnection ==
    [][\A t \in Tasks :
          (/\ task[t].op \in Routes
           /\ \/ task'[t].sess = "open" /\ task[t].sess # "open"
              \/ task[t].pc = "eng_query" /\ constructed' # constructed)
          => task[t].has_access]_vars

Cached(cache) == {cache[p] : p \in DOMAIN cache}

\* C24: every entry of plant_engines and of plant_neo4j_drivers has passed a
\* liveness probe.
C24_EntriesProbed ==
    \A h \in Cached(plant_engines) \cup Cached(plant_neo4j_drivers) : h \in probed

\* C26: a call for a tenant that is cached never finds the lock held by a
\* build for another tenant.
C26_CachedReadNotBlocked ==
    \A t, u \in Tasks :
        /\ (task[t].pc = "eng_lock" /\ EngineCached(task[t].plant))
              => ~(plant_engines_lock = u /\ task[u].plant # task[t].plant)
        /\ (task[t].pc = "drv_lock" /\ DriverCached(task[t].plant))
              => ~(plant_neo4j_lock = u /\ task[u].plant # task[t].plant)

\* C28: every driver that was constructed is being probed by the call that
\* constructed it, or is cached, or was closed.
C28_NoDriverLeftOpen ==
    \A h \in constructed :
        h.kind = "driver" =>
           \/ \E t \in Tasks : task[t].pc = "drv_probe" /\ task[t].h = h
           \/ h \in Cached(plant_neo4j_drivers)
           \/ h \in closed

\* C25: every call of get_plant_engine / get_plant_neo4j_driver that has
\* started ends, returning or raising.
C25_CallsEnd ==
    \A t \in Tasks : (task[t].pc # "idle") ~> (task[t].pc = "done")

\* A step of some coroutine.
SomeTaskStep ==
    \E t \in Tasks :
        GetSteps(t) \/ InitSteps(t) \/ HealthSteps(t) \/ CloseSteps(t) \/ Return(t)

C29_InUseNotClosed ==
    \A t \in Tasks :
        (task[t].op \in ScopeOps /\ task[t].pc = "work" /\ task[t].sess = "open")
        => task[t].h \notin closed

\* C30: read_queries and read_query never raise; after an error
\* read_queries returns [[]] and read_query returns [], the value of a query
\* without a match; without an error read_queries returns one result per
\* query, in the order of the queries, and read_query the result of its
\* query.
C30_ReadNeverRaises ==
    \A t \in Tasks :
        (task[t].op \in {"read_queries", "read_query"} /\ task[t].pc = "done") =>
           /\ task[t].res = Ok(NoHandle)
           /\ task[t].op = "read_queries" =>
                 IF task[t].caught THEN task[t].value = <<<<>>>>
                 ELSE /\ Len(task[t].value) = Len(task[t].queries)
                      /\ \A i \in 1..Len(task[t].queries) :
                            task[t].value[i] \in Answers(task[t].queries[i])
           /\ task[t].op = "read_query" =>
                 IF task[t].caught THEN task[t].value = <<>>
                 ELSE task[t].value \in Answers(task[t].queries[1])

\* C30 witness: a read_queries call of two queries returned [[]] after the
\* second query raised, beside a read_queries call that returned the rows
\* of query 2 and then of query 1.
C30_Witness ==
    \E t, u \in Tasks :
        /\ task[t].op = "read_queries" /\ task[t].pc = "done" /\ task[t].caught
        /\ Len(task[t].queries) = 2 /\ task[t].value = <<<<>>>>
        /\ task[u].op = "read_queries" /\ task[u].pc = "done" /\ ~task[u].caught
        /\ task[u].queries = <<2, 1>> /\ task[u].value = <<<<2>>, <<1>>>>

\* C5: every cached driver has passed its probe; the step in which a call
\* ends 503 leaves no entry for its key; and the driver a call caches is
\* the one this call constructed after its own registry lookup.
C5_ProbedBeforeCached ==
    /\ [](\A p \in DOMAIN plant_neo4j_drivers : plant_neo4j_drivers[p] \in probed)
    /\ [][\A t \in Tasks :
            /\ (task[t].pc = "drv_probe" /\ task'[t].res = HTTPException(503)
                 /\ task'[t].pc # "drv_probe")
               => task[t].plant \notin DOMAIN plant_neo4j_drivers'
            /\ \A p \in DOMAIN plant_neo4j_drivers' :
                  (p \notin DOMAIN plant_neo4j_drivers /\ task[t].plant = p
                   /\ task[t].pc = "drv_probe" /\ task'[t].pc # "drv_probe")
                  => (/\ plant_neo4j_drivers'[p] = task[t].h
                      /\ task[t].h.n = BuiltCount("driver", p))]_vars

\* C5 witness: a driver is cached by the call that followed a failed probe
\* for the same key.
C5_Witness ==
    \E p \in DOMAIN plant_neo4j_drivers :
        /\ plant_neo4j_drivers[p].n = 2
        /\ \E h \in constructed : h.kind = "driver" /\ h.key = p /\ h.n = 1 /\ h \notin probed

====
